---- MODULE Spec2Model ----
(***************************************************************************)
(* Platform specialisation of the webpack configuration:                   *)
(*   packages/webpack5/src/configuration/base.ts   (base configuration)    *)
(*   the React configuration that calls base and then prepends the tsx     *)
(*   extensions.                                                           *)
(*                                                                         *)
(* Strings are modelled as sequences of tokens.  A token is either a       *)
(* separator ("." or "/") or a word (a run of \w characters).  A string    *)
(* has one tokenisation when no two words are adjacent, and no word of     *)
(* the alphabets used below is a prefix, or a concatenation, of others     *)
(* that would let a substring test succeed inside a token.  All string     *)
(* operations of the source (template literals, includes, replace,         *)
(* extname, RegExp.test) are computed on that representation.              *)
(***************************************************************************)
EXTENDS Integers, Sequences, FiniteSets, TLC

VARIABLES
    platform,   \* the platform identifier the build was started for
    env,        \* the IWebpackEnv object shared by all invocations
    outputs,    \* the configs returned so far, with the function that built them
    calls,      \* number of invocations of a configuration function so far
    pc,         \* "ready", or "failed" once an invocation has thrown
    context,    \* the path offered to the ContextExclusionPlugins, and their verdicts
    imported    \* the @import offered to the postcss-import resolver, and its result

vars == <<platform, env, outputs, calls, pc, context, imported>>

-----------------------------------------------------------------------------
(* Bounds of the model *)

MaxCalls == 2
MaxComponents == 1
MaxPathLen == 5
MaxIdLen == 4

-----------------------------------------------------------------------------
(* Token strings *)

Range(s) == {s[i] : i \in DOMAIN s}

IsWord(t) == t \notin {".", "/"}

\* one tokenisation per string: two adjacent words would be one longer word
WellFormed(s) == \A i \in 1..(Len(s) - 1) : ~(IsWord(s[i]) /\ IsWord(s[i + 1]))

Strings(tokens, n) == {s \in UNION {[1..k -> tokens] : k \in 0..n} : WellFormed(s)}

\* sub occurs in s at position i
OccursAt(s, sub, i) ==
    /\ i >= 1
    /\ i + Len(sub) - 1 <= Len(s)
    /\ \A k \in 1..Len(sub) : s[i + k - 1] = sub[k]

\* String.prototype.includes
Includes(s, sub) == \E i \in 1..(Len(s) + 1) : OccursAt(s, sub, i)

\* String.prototype.replace with a string pattern: the first occurrence only
Replace(s, sub, by) ==
    IF ~Includes(s, sub) THEN s
    ELSE LET i == CHOOSE j \in 1..(Len(s) + 1) :
                      /\ OccursAt(s, sub, j)
                      /\ \A k \in 1..(j - 1) : ~OccursAt(s, sub, k)
         IN SubSeq(s, 1, i - 1) \o by \o SubSeq(s, i + Len(sub), Len(s))

EndsWith(s, suffix) == OccursAt(s, suffix, Len(s) - Len(suffix) + 1)

-----------------------------------------------------------------------------
(* webpack-chain ChainedSet, as used on config.resolve.extensions and on   *)
(* config.entry('bundle'): an insertion-ordered set.                       *)

\* a plain Array.prototype.push, which keeps duplicates
ArrayPush(store, x) == Append(store, x)

\* ChainedSet.add
ChainedSetAdd(store, x) == IF x \in Range(store) THEN store ELSE Append(store, x)

\* ChainedSet.prepend: new Set([x, ...store])
ChainedSetPrepend(store, x) == <<x>> \o SelectSeq(store, LAMBDA y : y # x)

RECURSIVE ChainedSetMerge(_, _)
\* ChainedSet.merge: new Set([...store, ...arr])
ChainedSetMerge(store, arr) ==
    IF arr = <<>> THEN store
    ELSE ChainedSetMerge(ChainedSetAdd(store, Head(arr)), Tail(arr))

-----------------------------------------------------------------------------
(* helpers/platform *)

\* getAvailablePlatforms()
getAvailablePlatforms == <<"android", "ios", "visionos">>

KnownPlatforms == Range(getAvailablePlatforms)

\* platform identifiers a build can be started with; "windows" is not known
PlatformIds == KnownPlatforms \cup {"windows"}

\* getPlatformName(): the active platform, or a thrown configuration error
getPlatformName(p) ==
    IF p \in KnownPlatforms THEN [threw |-> FALSE, value |-> p]
    ELSE [threw |-> TRUE, value |-> "none"]

-----------------------------------------------------------------------------
(* config.resolve.extensions *)

\* `.${platform}.${e}`
PlatformExt(p, e) == <<".", p, ".", e>>

\* `.${e}`
GenericExt(e) == <<".", e>>

GenericExtensions == <<"ts", "js", "mjs", "css", "scss", "json">>

RECURSIVE GenericFirstExtensions(_, _, _)
GenericFirstExtensions(extensions, p, exts) ==
    IF exts = <<>> THEN extensions
    ELSE GenericFirstExtensions(
             ChainedSetAdd(ChainedSetAdd(extensions, GenericExt(Head(exts))),
                           PlatformExt(p, Head(exts))),
             p, Tail(exts))

RECURSIVE AddExtensions(_, _, _)
\* .add(`.${platform}.ts`).add('.ts') ... .add(`.${platform}.json`).add('.json')
AddExtensions(extensions, p, exts) ==
    IF exts = <<>> THEN extensions
    ELSE AddExtensions(
             ChainedSetAdd(ChainedSetAdd(extensions, PlatformExt(p, Head(exts))),
                           GenericExt(Head(exts))),
             p, Tail(exts))

ResolveExtensionsGenericFirst(extensions, p) ==
    GenericFirstExtensions(extensions, p, GenericExtensions)

ResolveExtensions(extensions, p) == AddExtensions(extensions, p, GenericExtensions)

RECURSIVE AliasLoop(_, _)
\* extensions.forEach((ext) => { newExtensions.push(ext); if (...) newExtensions.push(...) })
AliasLoop(extensions, newExtensions) ==
    IF extensions = <<>> THEN newExtensions
    ELSE LET ext == Head(extensions)
             pushed == Append(newExtensions, ext)
         IN AliasLoop(Tail(extensions),
                      IF Includes(ext, <<"visionos">>)
                      THEN Append(pushed, Replace(ext, <<"visionos">>, <<"ios">>))
                      ELSE pushed)

RECURSIVE AliasLoopBefore(_, _)
AliasLoopBefore(extensions, newExtensions) ==
    IF extensions = <<>> THEN newExtensions
    ELSE LET ext == Head(extensions)
         IN AliasLoopBefore(Tail(extensions),
                IF Includes(ext, <<"visionos">>)
                THEN Append(Append(newExtensions,
                                   Replace(ext, <<"visionos">>, <<"ios">>)), ext)
                ELSE Append(newExtensions, ext))

RECURSIVE IosVariants(_)
IosVariants(extensions) ==
    IF extensions = <<>> THEN <<>>
    ELSE (IF Includes(Head(extensions), <<"visionos">>)
          THEN <<Replace(Head(extensions), <<"visionos">>, <<"ios">>)>>
          ELSE <<>>) \o IosVariants(Tail(extensions))

\* the ios variants pushed after all the other entries
AliasExtensionsAppended(extensions) ==
    ChainedSetMerge(<<>>, extensions \o IosVariants(extensions))

\* the ios variant pushed before the visionos entry
AliasExtensionsBefore(extensions) ==
    ChainedSetMerge(<<>>, AliasLoopBefore(extensions, <<>>))

\* the body of `if (platform === 'visionos') { ... }`
AliasExtensions(extensions) == ChainedSetMerge(<<>>, AliasLoop(extensions, <<>>))

-----------------------------------------------------------------------------
(* ContextExclusionPlugin patterns *)

\* the alternation without the filter on the active platform
allPlatformsRE(p) == getAvailablePlatforms

\* getAvailablePlatforms().filter((platform) => platform !== getPlatformName())
\* the alternatives of the joined alternation, in order
otherPlatformsRE(p) == SelectSeq(getAvailablePlatforms, LAMBDA q : q # p)

\* new RegExp(`(.*)App_Resources(.*)`).test(path)
TestAppResources(path) == Includes(path, <<"App_Resources">>)

\* new RegExp(`\\.(${otherPlatformsRE})\\.(\\w+)$`).test(path)
\* an empty join gives the group (), which matches the empty string
TestOtherPlatforms(alternatives, path) ==
    \E i \in 1..Len(path) :
        /\ path[i] = "."
        /\ \/ /\ alternatives # <<>>
              /\ i + 3 <= Len(path)
              /\ path[i + 1] \in Range(alternatives)
              /\ path[i + 2] = "."
              /\ \A j \in (i + 3)..Len(path) : IsWord(path[j])
           \/ /\ alternatives = <<>>
              /\ i + 2 <= Len(path)
              /\ path[i + 1] = "."
              /\ \A j \in (i + 2)..Len(path) : IsWord(path[j])

-----------------------------------------------------------------------------
(* The configuration object and the environment *)

\* the Config a caller hands to a configuration function
NewConfig ==
    [ mode |-> "unset",
      entry |-> <<>>,
      inspector |-> FALSE,
      extensions |-> <<>>,
      postcssPlatform |-> "unset",
      suffixPlugin |-> <<>>,
      otherPlatforms |-> <<>>,
      defines |-> [DEV |-> "unset", ANDROID |-> "unset", IOS |-> "unset",
                   VISIONOS |-> "unset", APPLE |-> "unset", NODE_ENV |-> "unset"] ]

Bool(b) == IF b THEN "true" ELSE "false"

Components == {"custom", "@nativescript/core/ui/frame"}

\* env.appComponents: undefined, one string, or an array
AppComponentsValues ==
    {[kind |-> "undefined", items |-> <<>>]}
    \cup {[kind |-> "string", items |-> <<c>>] : c \in Components}
    \cup {[kind |-> "array", items |-> s] :
              s \in UNION {[1..k -> Components] : k \in 0..MaxComponents}}

Envs == [production : BOOLEAN, appComponents : AppComponentsValues]

RECURSIVE AddComponents(_, _)
\* appComponents.map((component) => { config.entry('bundle').add(component) })
AddComponents(entry, appComponents) ==
    IF appComponents = <<>> THEN entry
    ELSE AddComponents(ChainedSetAdd(entry, Head(appComponents)), Tail(appComponents))

\* shouldIncludeInspectorModules()
shouldIncludeInspectorModules(p) == p = "ios" \/ p = "android"

\* the statements of the base configuration after the platform is known
configure(config, e, plat) ==
    LET mode == IF e.production THEN "production" ELSE "development"
        \* Array.isArray(env.appComponents) ? env.appComponents
        \*     : (env.appComponents && [env.appComponents]) || []
        appComponents == e.appComponents.items
        pushed == Append(Append(appComponents, "@nativescript/core/ui/frame"),
                         "@nativescript/core/ui/frame/activity")
        bundle == ChainedSetAdd(ChainedSetAdd(ChainedSetAdd(config.entry,
                      "@nativescript/core/globals/index"),
                      "@nativescript/core/bundle-entry-points"),
                      "entryPath")
        added == ResolveExtensions(config.extensions, plat)
    IN [ threw |-> FALSE,
         config |->
           [ mode |-> mode,
             entry |-> IF plat = "android" THEN AddComponents(bundle, pushed)
                       ELSE bundle,
             inspector |-> shouldIncludeInspectorModules(plat),
             extensions |-> IF plat = "visionos" THEN AliasExtensions(added)
                            ELSE added,
             postcssPlatform |-> plat,
             suffixPlugin |-> IF plat = "visionos" THEN <<plat, "ios">> ELSE <<plat>>,
             otherPlatforms |-> otherPlatformsRE(plat),
             defines |-> [ DEV |-> Bool(mode = "development"),
                           ANDROID |-> Bool(plat = "android"),
                           IOS |-> Bool(plat = "ios"),
                           VISIONOS |-> Bool(plat = "visionos"),
                           APPLE |-> Bool(plat = "ios" \/ plat = "visionos"),
                           NODE_ENV |-> config.defines.NODE_ENV ] ],
         \* the push lands in env.appComponents itself when that is an array
         env |-> IF plat = "android" /\ e.appComponents.kind = "array"
                 THEN [e EXCEPT !.appComponents.items = pushed]
                 ELSE e ]

\* a configuration function that goes on with the identifier it was given
baseUnchecked(config, e, p) == configure(config, e, p)

\* export default function (config, env): the base configuration
base(config, e, p) ==
    LET name == getPlatformName(p)
    IN IF name.threw THEN [threw |-> TRUE, config |-> config, env |-> e]
       ELSE configure(config, e, name.value)

\* the tsx entries added at the end of the set
ReactExtensionsAdded(extensions, p) ==
    ChainedSetAdd(ChainedSetAdd(extensions, PlatformExt(p, "tsx")), GenericExt("tsx"))

\* config.resolve.extensions.prepend('.tsx').prepend(`.${platform}.tsx`)
ReactExtensions(extensions, p) ==
    ChainedSetPrepend(ChainedSetPrepend(extensions, GenericExt("tsx")),
                      PlatformExt(p, "tsx"))

\* export default function (config, env): the React configuration
react(config, e, p) ==
    LET r == base(config, e, p)
    IN IF r.threw THEN r
       ELSE [r EXCEPT !.config.extensions = ReactExtensions(@, p),
                      !.config.defines.DEV = "true",
                      !.config.defines.NODE_ENV = "development"]

-----------------------------------------------------------------------------
(* postcss-import resolve(id, baseDir, importOptions) *)

\* path.extname on a specifier of one path segment
extname(id) ==
    LET dots == {i \in 1..Len(id) : id[i] = "."}
    IN IF dots = {} THEN <<>>
       ELSE LET startDot == CHOOSE i \in dots : \A j \in dots : j <= i
            IN IF startDot = 1 \/ id = <<".", ".">> THEN <<>>
               ELSE SubSeq(id, startDot, Len(id))

\* what the file system holds for a platform request:
\*   "module"  require.resolve finds it
\*   "file"    require.resolve throws, existsSync(extPath) is true
\*   "missing" require.resolve throws, existsSync(extPath) is false
Outcomes == {"module", "file", "missing"}

\* try { return require.resolve(platformRequest, ...) } catch {}
TryRequireResolve(outcome) == IF outcome = "module" THEN "returned" ELSE "caught"

\* existsSync(extPath)
existsSync(outcome) == outcome # "missing"

ImportTargetsIosFirst(plat) == IF plat = "visionos" THEN <<"ios", plat>> ELSE <<plat>>

\* const extensions = platform === 'visionos' ? [platform, 'ios'] : [platform]
ImportTargets(plat) == IF plat = "visionos" THEN <<plat, "ios">> ELSE <<plat>>

RECURSIVE ResolveLoop(_, _, _)
\* for (const platformTarget of extensions) { ... }  return id
ResolveLoop(targets, id, fs) ==
    IF targets = <<>> THEN [via |-> "fallback", target |-> "none", request |-> id]
    ELSE LET platformTarget == Head(targets)
             ext == extname(id)
             platformExt == IF ext # <<>> THEN <<".", platformTarget>> \o ext ELSE <<>>
             platformRequest == Replace(id, ext, platformExt)
             tried == TryRequireResolve(fs[platformTarget])
         IN IF Includes(id, platformExt) THEN ResolveLoop(Tail(targets), id, fs)
            ELSE IF tried = "returned"
                 THEN [via |-> "require", target |-> platformTarget,
                       request |-> platformRequest]
            ELSE IF tried # "caught"
                 THEN [via |-> "throw", target |-> platformTarget,
                       request |-> platformRequest]
            ELSE IF existsSync(fs[platformTarget])
                 THEN [via |-> "exists", target |-> platformTarget,
                       request |-> platformRequest]
            ELSE ResolveLoop(Tail(targets), id, fs)

\* resolve(id, baseDir, importOptions), with `platform` captured by the closure
resolve(plat, id, fs) == ResolveLoop(ImportTargets(plat), id, fs)

-----------------------------------------------------------------------------
(* State machine *)

PathTokens == {".", "/", "foo", "ts", "App_Resources"} \cup KnownPlatforms

Paths == Strings(PathTokens, MaxPathLen)

IdTokens == {".", "foo", "css", "ios", "visionos"}

Ids == Strings(IdTokens, MaxIdLen)

NoContext == [probed |-> FALSE, path |-> <<>>, appResources |-> FALSE,
              otherPlatforms |-> FALSE]

NoImport == [resolved |-> FALSE, id |-> <<>>, fs |-> <<>>,
             result |-> [via |-> "none", target |-> "none", request |-> <<>>]]

DefaultEnv == [production |-> FALSE,
               appComponents |-> [kind |-> "undefined", items |-> <<>>]]

Init ==
    /\ platform \in PlatformIds
    /\ env \in Envs
    /\ outputs = <<>>
    /\ calls = 0
    /\ pc = "ready"
    /\ context = NoContext
    /\ imported = NoImport

InitDefaultEnv == Init /\ env = DefaultEnv

\* one invocation of configuration function fn on a new Config
Build(fn, r) ==
    /\ pc = "ready"
    /\ calls < MaxCalls
    /\ calls' = calls + 1
    /\ IF r.threw
       THEN /\ pc' = "failed"
            /\ UNCHANGED <<outputs, env>>
       ELSE /\ outputs' = Append(outputs, [fn |-> fn, config |-> r.config])
            /\ env' = r.env
            /\ pc' = pc
    /\ UNCHANGED <<platform, context, imported>>

BuildBase == Build("base", base(NewConfig, env, platform))

BuildReact == Build("react", react(NewConfig, env, platform))

\* webpack offers a require.context candidate to both ContextExclusionPlugins
RequireContext ==
    /\ outputs # <<>>
    /\ ~context.probed
    /\ \E path \in Paths :
          context' = [probed |-> TRUE,
                      path |-> path,
                      appResources |-> TestAppResources(path),
                      otherPlatforms |->
                          TestOtherPlatforms(outputs[Len(outputs)].config.otherPlatforms,
                                             path)]
    /\ UNCHANGED <<platform, env, outputs, calls, pc, imported>>

\* postcss-import calls the custom resolver for an @import
ResolveImport ==
    /\ outputs # <<>>
    /\ ~imported.resolved
    /\ LET plat == outputs[Len(outputs)].config.postcssPlatform
       IN \E id \in Ids, fs \in [Range(ImportTargets(plat)) -> Outcomes] :
             imported' = [resolved |-> TRUE, id |-> id, fs |-> fs,
                          result |-> resolve(plat, id, fs)]
    /\ UNCHANGED <<platform, env, outputs, calls, pc, context>>

Next == BuildBase \/ BuildReact

Spec == Init /\ [][Next]_vars

NextContext == BuildBase \/ RequireContext

SpecContext == InitDefaultEnv /\ [][NextContext]_vars

NextImport == BuildBase \/ ResolveImport

SpecImport == InitDefaultEnv /\ [][NextImport]_vars

-----------------------------------------------------------------------------
(* Vocabulary of the properties *)

\* position of x in list, 0 when absent
IndexOf(list, x) ==
    IF x \in Range(list)
    THEN CHOOSE i \in DOMAIN list : list[i] = x /\ \A j \in 1..(i - 1) : list[j] # x
    ELSE 0

NoDuplicates(list) == \A i, j \in DOMAIN list : list[i] = list[j] => i = j

\* the entries of list for extension e, in order
EntriesFor(list, e) == SelectSeq(list, LAMBDA x : x[Len(x)] = e)

Outputs(fn) == {outputs[i].config : i \in {j \in DOMAIN outputs : outputs[j].fn = fn}}

AllOutputs == {outputs[i].config : i \in DOMAIN outputs}

\* path ends in .q.<ext>
EndsQualified(path, q) ==
    /\ Len(path) >= 4
    /\ path[Len(path) - 3] = "."
    /\ path[Len(path) - 2] = q
    /\ path[Len(path) - 1] = "."
    /\ IsWord(path[Len(path)])

Unqualified(path) == \A q \in KnownPlatforms : ~EndsQualified(path, q)

Excluded == context.appResources \/ context.otherPlatforms

LastConfig == outputs[Len(outputs)].config

-----------------------------------------------------------------------------
(* C1 *)

\* C1 as stated: for the active platform p, the union of the two exclusion
\* patterns matches every path ending in .q.<ext> for another known platform q,
\* and matches no path ending in .p.<ext> and no unqualified path.
C1_ExclusionExact ==
    context.probed =>
        /\ \A q \in KnownPlatforms \ {platform} :
               EndsQualified(context.path, q) => Excluded
        /\ (EndsQualified(context.path, platform) \/ Unqualified(context.path))
               => ~Excluded

\* C1 amended: the same, except that a path containing App_Resources is matched
\* by the fixed pattern whatever its suffix; outside App_Resources no path
\* suffixed for p and no unqualified path is matched.
C1_ExclusionOutsideAppResources ==
    context.probed =>
        /\ \A q \in KnownPlatforms \ {platform} :
               EndsQualified(context.path, q) => Excluded
        /\ Includes(context.path, <<"App_Resources">>) => Excluded
        /\ ( /\ EndsQualified(context.path, platform) \/ Unqualified(context.path)
             /\ ~Includes(context.path, <<"App_Resources">>) )
               => ~Excluded

\* C1 witness: building for android, foo.ios.ts was offered and excluded
C1_Witness ==
    /\ context.probed
    /\ platform = "android"
    /\ context.path = <<"foo", ".", "ios", ".", "ts">>
    /\ context.otherPlatforms

-----------------------------------------------------------------------------
(* C2 *)

\* C2 as stated: in the list built by the base configuration every generic
\* extension .e is present and .p.e is the entry immediately before it.
C2_PlatformImmediatelyBeforeGeneric ==
    \A c \in Outputs("base") : \A k \in DOMAIN GenericExtensions :
        LET e == GenericExtensions[k]
            i == IndexOf(c.extensions, PlatformExt(platform, e))
        IN /\ i > 0
           /\ IndexOf(c.extensions, GenericExt(e)) = i + 1

\* C2 amended: every generic extension .e is present and .p.e precedes it;
\* immediately for ios and android, and with exactly the entry .ios.e in
\* between when p is visionos.
C2_PlatformBeforeGeneric ==
    \A c \in Outputs("base") : \A k \in DOMAIN GenericExtensions :
        LET e == GenericExtensions[k]
            i == IndexOf(c.extensions, PlatformExt(platform, e))
            g == IndexOf(c.extensions, GenericExt(e))
        IN /\ i > 0
           /\ IF platform = "visionos"
              THEN g = i + 2 /\ c.extensions[i + 1] = PlatformExt("ios", e)
              ELSE g = i + 1

\* C2 witness: a base configuration built for visionos, with its 18 entries
C2_Witness ==
    /\ platform = "visionos"
    /\ \E c \in Outputs("base") : Len(c.extensions) = 18

-----------------------------------------------------------------------------
(* C3 *)

\* C3 as stated: on visionos the entries for ts are, in order,
\* .visionos.ts, .ts, .ios.ts (the ios variant after the generic entry).
C3_IosAfterGeneric ==
    platform = "visionos" =>
        \A c \in Outputs("base") :
            EntriesFor(c.extensions, "ts")
                = <<PlatformExt("visionos", "ts"), GenericExt("ts"),
                    PlatformExt("ios", "ts")>>

\* C3 amended: on visionos the ios variant is interleaved between the visionos
\* entry and the generic entry: for ts the order is .visionos.ts, .ios.ts, .ts,
\* and likewise for every other extension of the fixed set.
C3_IosBeforeGeneric ==
    platform = "visionos" =>
        \A c \in AllOutputs : \A k \in DOMAIN GenericExtensions :
            LET e == GenericExtensions[k]
            IN EntriesFor(c.extensions, e)
                   = <<PlatformExt("visionos", e), PlatformExt("ios", e),
                       GenericExt(e)>>

\* C3 witness: a visionos base configuration that holds .ios.ts
C3_Witness ==
    /\ platform = "visionos"
    /\ \E c \in Outputs("base") : PlatformExt("ios", "ts") \in Range(c.extensions)

-----------------------------------------------------------------------------
(* C4 *)

IosEntries(list) == {i \in DOMAIN list : Len(list[i]) = 4 /\ list[i][2] = "ios"}

\* C4 as stated: on visionos every entry .ios.e has its entry .visionos.e at a
\* later position, and no entry occurs twice.
C4_VisionosLaterThanIos ==
    platform = "visionos" =>
        \A c \in AllOutputs :
            /\ NoDuplicates(c.extensions)
            /\ \A i \in IosEntries(c.extensions) :
                   \E j \in DOMAIN c.extensions :
                       /\ j > i
                       /\ c.extensions[j]
                              = Replace(c.extensions[i], <<"ios">>, <<"visionos">>)

\* C4 amended: on visionos every entry .ios.e has its entry .visionos.e at the
\* position immediately before it, and no entry occurs twice.
C4_VisionosBeforeIos ==
    platform = "visionos" =>
        \A c \in AllOutputs :
            /\ NoDuplicates(c.extensions)
            /\ \A i \in IosEntries(c.extensions) :
                   /\ i > 1
                   /\ c.extensions[i - 1]
                          = Replace(c.extensions[i], <<"ios">>, <<"visionos">>)

\* C4 witness: a visionos configuration with its six ios entries
C4_Witness ==
    /\ platform = "visionos"
    /\ \E c \in AllOutputs : Cardinality(IosEntries(c.extensions)) = 6

-----------------------------------------------------------------------------
(* C5 *)

\* the specifier has an extension and is not yet qualified for target t
Candidate(id, t) ==
    /\ extname(id) # <<>>
    /\ ~Includes(id, <<".", t>> \o extname(id))

\* C5: the resolver never throws; it returns the platform-qualified request
\* when that resolves, otherwise (on visionos only) the ios-qualified request
\* when that resolves, otherwise the specifier unmodified.
C5_ImportResolution ==
    imported.resolved =>
        LET r == imported.result
            id == imported.id
            fs == imported.fs
            hit(t) == Candidate(id, t) /\ fs[t] # "missing"
        IN /\ r.via \in {"require", "exists", "fallback"}
           /\ r.via = "fallback" <=> (r.request = id /\ r.target = "none")
           /\ hit(platform) => r.target = platform
           /\ (platform = "visionos" /\ ~hit("visionos") /\ hit("ios"))
                  => r.target = "ios"
           /\ r.target = "ios" => platform \in {"ios", "visionos"}
           /\ r.target # "none" =>
                  /\ r.target \in DOMAIN fs
                  /\ hit(r.target)
                  /\ r.via = (IF fs[r.target] = "module" THEN "require" ELSE "exists")
                  /\ Includes(r.request, <<".", r.target>>)
           /\ (\A t \in DOMAIN fs : ~hit(t)) => r.via = "fallback"

\* C5 witness: on visionos the visionos request is missing and the ios sibling
\* file exists, so the ios request is returned
C5_Witness ==
    /\ imported.resolved
    /\ platform = "visionos"
    /\ imported.id = <<"foo", ".", "css">>
    /\ imported.fs["visionos"] = "missing"
    /\ imported.result = [via |-> "exists", target |-> "ios",
                          request |-> <<"foo", ".", "ios", ".", "css">>]

-----------------------------------------------------------------------------
(* C6 *)

\* C6: two invocations of the same configuration function with the same
\* platform and the same env object, each on a new Config, return equal
\* configs; what the first leaves behind in env does not change the second.
C6_Idempotent ==
    \A i, j \in DOMAIN outputs :
        outputs[i].fn = outputs[j].fn => outputs[i].config = outputs[j].config

\* C6 witness: the base configuration ran twice for android on an env whose
\* appComponents array has grown by the four pushed components
C6_Witness ==
    /\ platform = "android"
    /\ env.appComponents.kind = "array"
    /\ Len(env.appComponents.items) >= 4
    /\ \E i, j \in DOMAIN outputs :
           i < j /\ outputs[i].fn = "base" /\ outputs[j].fn = "base"

-----------------------------------------------------------------------------
(* C7 *)

IsTsx(x) == x[Len(x)] = "tsx"

\* the entries of the fixed set keep the order .p.ts .ts .p.js .js ... .json
FixedSetInOrder(list) ==
    /\ \A k \in DOMAIN GenericExtensions :
           /\ IndexOf(list, PlatformExt(platform, GenericExtensions[k])) > 0
           /\ IndexOf(list, PlatformExt(platform, GenericExtensions[k]))
                  < IndexOf(list, GenericExt(GenericExtensions[k]))
    /\ \A k \in 1..(Len(GenericExtensions) - 1) :
           IndexOf(list, GenericExt(GenericExtensions[k]))
               < IndexOf(list, PlatformExt(platform, GenericExtensions[k + 1]))

\* C7 as stated: after the React configuration the tsx entries come after all
\* entries of the fixed set, whose relative order is unchanged.
C7_TsxAppended ==
    \A c \in Outputs("react") :
        /\ FixedSetInOrder(c.extensions)
        /\ \A i, j \in DOMAIN c.extensions :
               (IsTsx(c.extensions[i]) /\ ~IsTsx(c.extensions[j])) => j < i

\* C7 amended: after the React configuration the tsx entries are the first two
\* entries, .p.tsx then .tsx, before all entries of the fixed set, whose
\* relative order is unchanged.
C7_TsxPrepended ==
    \A c \in Outputs("react") :
        /\ FixedSetInOrder(c.extensions)
        /\ c.extensions[1] = PlatformExt(platform, "tsx")
        /\ c.extensions[2] = GenericExt("tsx")
        /\ \A i \in 3..Len(c.extensions) : ~IsTsx(c.extensions[i])

\* C7 witness: a React configuration was built for ios
C7_Witness ==
    /\ platform = "ios"
    /\ \E c \in Outputs("react") : GenericExt("tsx") \in Range(c.extensions)

-----------------------------------------------------------------------------
(* C8 *)

-----------------------------------------------------------------------------
(* C9 *)

\* the path carries a platform suffix that resolution accepts
AcceptedForResolution(path) ==
    \/ \E i \in DOMAIN LastConfig.extensions :
           /\ Len(LastConfig.extensions[i]) = 4
           /\ EndsWith(path, LastConfig.extensions[i])
    \/ \E i \in DOMAIN LastConfig.suffixPlugin :
           EndsQualified(path, LastConfig.suffixPlugin[i])

\* C9: no path whose platform suffix is accepted for resolution is matched by
\* the other-platforms exclusion pattern.
C9_ResolutionAgreesWithExclusion ==
    context.probed =>
        (AcceptedForResolution(context.path) => ~context.otherPlatforms)

-----------------------------------------------------------------------------
(* C10 *)

\* C10: on visionos, after the React configuration, every visionos-qualified
\* entry is immediately followed by its ios-qualified counterpart.
C10_VisionosFollowedByIos ==
    platform = "visionos" =>
        \A c \in Outputs("react") : \A i \in DOMAIN c.extensions :
            Includes(c.extensions[i], <<"visionos">>) =>
                /\ i + 1 <= Len(c.extensions)
                /\ c.extensions[i + 1]
                       = Replace(c.extensions[i], <<"visionos">>, <<"ios">>)

====
